---- MODULE Spec2Model ----
(***************************************************************************)
(* Model of src/routes/+page.svelte: the content model `sections`, the     *)
(* {#each} render pass of the template over it, and the indentation        *)
(* normalizer `dedent` the template applies to every text before handing   *)
(* it to the Markdown / Highlight components.                              *)
(*                                                                         *)
(* A text is a sequence of characters over {" ", "\t", "\n", "a"}, where   *)
(* "a" stands for any non-whitespace character.                            *)
(***************************************************************************)
EXTENDS Integers, Sequences, FiniteSets, TLC

VARIABLES
    sections,   \* the content model: a sequence of entries (const sections)
    raisesOn,   \* the set of code texts the installed highlighter raises on
    idx,        \* position of the {#each} block in sections (1-based)
    pc,         \* template position inside the current <section>
    out,        \* rendered entries so far: [title, description, cells]
    calls,      \* component instantiations so far: [fn, arg, entry, field]
    err,        \* the error that ended the pass, "none" if none
    raw,        \* normalizer harness: the RawText under test
    once,       \* normalizer harness: dedent(raw)
    twice,      \* normalizer harness: dedent(dedent(raw))
    npc         \* normalizer harness position

vars == <<sections, raisesOn, idx, pc, out, calls, err, raw, once, twice, npc>>

renderVars == <<sections, raisesOn, idx, pc, out, calls, err>>
normVars == <<raw, once, twice, npc>>

----------------------------------------------------------------------------
(* Bounds *)

MaxEntries == 2     \* longest content model explored
MaxLen == 5         \* longest RawText explored by the normalizer harness

----------------------------------------------------------------------------
(* Characters and texts *)

SP == " "
TAB == "\t"
NL == "\n"
CH == "a"

Chars == {SP, TAB, NL, CH}

IsWs(c) == c \in {SP, TAB}

Min2(a, b) == IF a <= b THEN a ELSE b

Texts(n) == UNION {[1..k -> Chars] : k \in 0..n}

----------------------------------------------------------------------------
(* Indentation normalizer (dedent)                                          *)

RECURSIVE SplitFrom(_, _, _)
SplitFrom(t, i, cur) ==
    IF i > Len(t) THEN <<cur>>
    ELSE IF t[i] = NL THEN <<cur>> \o SplitFrom(t, i + 1, <<>>)
    ELSE SplitFrom(t, i + 1, Append(cur, t[i]))

\* step 1: split into lines, preserving empty lines
SplitLines(t) == SplitFrom(t, 1, <<>>)

RECURSIVE JoinLines(_)
JoinLines(ls) ==
    IF ls = <<>> THEN <<>>
    ELSE IF Len(ls) = 1 THEN ls[1]
    ELSE ls[1] \o <<NL>> \o JoinLines(Tail(ls))

IsBlank(line) == \A i \in 1..Len(line) : IsWs(line[i])

RECURSIVE LeadingWs(_)
LeadingWs(line) ==
    IF line = <<>> \/ ~IsWs(line[1]) THEN 0
    ELSE 1 + LeadingWs(Tail(line))

\* step 2: minimum leading-whitespace length over the non-blank lines
MinIndent(ls) ==
    LET nb == {i \in 1..Len(ls) : ~IsBlank(ls[i])}
    IN  IF nb = {} THEN 0
        ELSE CHOOSE m \in {LeadingWs(ls[i]) : i \in nb} :
                 \A i \in nb : m <= LeadingWs(ls[i])

\* step 3: remove the common prefix; a shorter (blank) line becomes empty
StripLine(line, k) ==
    SubSeq(line, Min2(k, LeadingWs(line)) + 1, Len(line))

StripAll(ls) == LET k == MinIndent(ls) IN [i \in 1..Len(ls) |-> StripLine(ls[i], k)]

DropFirstBlank(ls) ==
    IF ls # <<>> /\ IsBlank(ls[1]) THEN Tail(ls) ELSE ls

DropLastBlank(ls) ==
    IF ls # <<>> /\ IsBlank(ls[Len(ls)]) THEN SubSeq(ls, 1, Len(ls) - 1) ELSE ls

RECURSIVE DropAllLeadingBlank(_)
DropAllLeadingBlank(ls) ==
    IF ls # <<>> /\ IsBlank(ls[1]) THEN DropAllLeadingBlank(Tail(ls)) ELSE ls

RECURSIVE DropAllTrailingBlank(_)
DropAllTrailingBlank(ls) ==
    IF ls # <<>> /\ IsBlank(ls[Len(ls)])
    THEN DropAllTrailingBlank(SubSeq(ls, 1, Len(ls) - 1))
    ELSE ls

\* a trim that eats every boundary blank line instead of a single one
TrimBoundaryGreedy(ls) == DropAllTrailingBlank(DropAllLeadingBlank(ls))

\* step 4: remove a single leading and a single trailing blank line
TrimBoundary(ls) == DropLastBlank(DropFirstBlank(ls))

dedent(t) ==
    LET ls == SplitLines(t)
    IN  IF \A i \in 1..Len(ls) : IsBlank(ls[i])
        THEN <<>>                       \* only blank lines: empty
        ELSE JoinLines(TrimBoundary(StripAll(ls)))

----------------------------------------------------------------------------
(* Content model (const sections)                                           *)

\* the titles of the entries, in source order
SectionTitles == <<"Hello World (Counter)", "Input Binding", "Control Flow",
                   "Deep State Reactivity / Object Mutability",
                   "Derived state", "Components Props", "Async (Promises)">>

\* an optional field: a property that is missing reads as undefined
Absent == [has |-> FALSE, text |-> <<>>]
Some(t) == [has |-> TRUE, text |-> t]

\* representative RawTexts, indented the way the literals of the source are
DescText == <<NL, SP, SP, CH, NL>>
CodeNested == <<NL, SP, CH, NL, NL, SP, SP, CH, NL>>
CodeFlat == <<NL, SP, SP, CH, CH, NL>>
NotesText == <<NL, TAB, CH, NL>>

\* <<svelte, vue>> code of an entry: the same idiom written twice, alike or not
CodePairs == {<<Some(CodeNested), Some(CodeNested)>>,
              <<Some(CodeFlat), Some(CodeNested)>>,
              <<Some(CodeNested), Some(CodeFlat)>>}

\* <<svelte, vue>> code of an entry that may lack a variant's code
CodePairsLoad == {<<Some(CodeNested), Some(CodeNested)>>,
                  <<Absent, Some(CodeNested)>>,
                  <<Some(CodeNested), Absent>>}

\* <<svelte, vue>> notes of an entry: each side absent, empty or written
NotesPairs == {<<Absent, Some(NotesText)>>,
               <<Some(<<>>), Absent>>,
               <<Some(NotesText), Some(NotesText)>>,
               <<Some(NotesText), Some(<<>>)>>,
               <<Absent, Absent>>}

Payloads(codes, notes) ==
    {[svelte |-> [code |-> c[1], notes |-> n[1]],
      vue |-> [code |-> c[2], notes |-> n[2]]] : c \in codes, n \in notes}

MakeSections(n, p) ==
    [i \in 1..n |-> [title |-> SectionTitles[i],
                     description |-> DescText,
                     svelte |-> p[i].svelte,
                     vue |-> p[i].vue]]

----------------------------------------------------------------------------
(* Components the template instantiates                                     *)

Markdown(md) == [kind |-> "markdown", text |-> md]

HighlightSvelteAsAuto(code) == [kind |-> "highlight-auto", text |-> code]

HighlightSvelte(code) == [kind |-> "highlight-svelte", text |-> code]

HighlightAuto(code) == [kind |-> "highlight-auto", text |-> code]

Nothing == [kind |-> "nothing", text |-> <<>>]

----------------------------------------------------------------------------
(* The template: {#each sections as section} ... {/each}                    *)

CurrentSectionReversed == sections[Len(sections) + 1 - idx]

\* the entry the {#each} block is rendering
CurrentSection == sections[idx]

DescriptionMdRaw(section) == section.description

\* md={dedent(section.description)}
DescriptionMd(section) == dedent(section.description)

\* section.svelte.code
SvelteCode(section) == section.svelte.code

\* section.vue.code
VueCode(section) == section.vue.code

TruthyAlways(notes) == TRUE

TruthyIfPresent(notes) == notes.has

\* {#if notes}: undefined and the empty string are both falsy
Truthy(notes) == notes.has /\ notes.text # <<>>

NotesSlotInsideIf(notes) ==
    IF Truthy(notes) THEN <<Markdown(dedent(notes.text))>> ELSE <<>>

\* <div>{#if notes}<Markdown md={dedent(notes)} />{/if}</div>
NotesSlot(notes) ==
    IF Truthy(notes) THEN <<Markdown(dedent(notes.text))>> ELSE <<Nothing>>

Call(fn, arg, field) == [fn |-> fn, arg |-> arg, entry |-> idx, field |-> field]

AddCells(o, cells) == [o EXCEPT ![Len(o)].cells = @ \o cells]

Init ==
    /\ \E n \in 1..MaxEntries :
         \E p \in [1..n -> Payloads(CodePairs, NotesPairs)] :
             sections = MakeSections(n, p)
    /\ raisesOn \in {{}, {dedent(CodeFlat)}}
    /\ idx = 1
    /\ pc = "title"
    /\ out = <<>>
    /\ calls = <<>>
    /\ err = "none"
    /\ raw = <<>>
    /\ once = <<>>
    /\ twice = <<>>
    /\ npc = "idle"

\* a content model in which a variant may lack its code
InitLoad ==
    /\ \E n \in 1..MaxEntries :
         \E p \in [1..n -> Payloads(CodePairsLoad, NotesPairs)] :
             sections = MakeSections(n, p)
    /\ raisesOn = {}
    /\ idx = 1
    /\ pc = "title"
    /\ out = <<>>
    /\ calls = <<>>
    /\ err = "none"
    /\ raw = <<>>
    /\ once = <<>>
    /\ twice = <<>>
    /\ npc = "idle"

\* <section><h2 class="section-header">{section.title}</h2>
RenderTitle ==
    /\ pc = "title"
    /\ out' = Append(out, [title |-> CurrentSection.title,
                           description |-> Nothing,
                           cells |-> <<>>])
    /\ pc' = "description"
    /\ UNCHANGED <<sections, raisesOn, idx, calls, err>>
    /\ UNCHANGED normVars

\* <Markdown md={dedent(section.description)} />
RenderDescription ==
    /\ pc = "description"
    /\ LET md == DescriptionMd(CurrentSection)
       IN  /\ calls' = Append(calls, Call("Markdown", md, "description"))
           /\ out' = [out EXCEPT ![Len(out)].description = Markdown(md)]
    /\ pc' = "svelte.code"
    /\ UNCHANGED <<sections, raisesOn, idx, err>>
    /\ UNCHANGED normVars

\* the text a code cell hands to its highlight component
CodeArg(code) == IF code.has THEN dedent(code.text) ELSE <<>>

\* a code cell: dedent the code, hand it to the highlight component. An
\* exception leaves the template: nothing in the file catches it.
CodeCell(fn, field, code, cell, nextpc) ==
    IF ~code.has
    THEN \* dedent(undefined): either it throws or it yields an empty text
         \/ /\ pc' = "aborted"
            /\ err' = "TypeError"
            /\ UNCHANGED <<calls, out>>
         \/ /\ calls' = Append(calls, Call(fn, CodeArg(code), field))
            /\ out' = AddCells(out, <<cell>>)
            /\ pc' = nextpc
            /\ UNCHANGED err
    ELSE /\ calls' = Append(calls, Call(fn, CodeArg(code), field))
         /\ IF CodeArg(code) \in raisesOn
            THEN /\ pc' = "aborted"
                 /\ err' = "HighlightError"
                 /\ UNCHANGED out
            ELSE /\ out' = AddCells(out, <<cell>>)
                 /\ pc' = nextpc
                 /\ UNCHANGED err

\* <div><b>Svelte</b><HighlightSvelte code={dedent(section.svelte.code)} /></div>
RenderSvelteCode ==
    /\ pc = "svelte.code"
    /\ CodeCell("HighlightSvelte", "svelte.code", SvelteCode(CurrentSection),
                HighlightSvelte(CodeArg(SvelteCode(CurrentSection))), "vue.code")
    /\ UNCHANGED <<sections, raisesOn, idx>>
    /\ UNCHANGED normVars

\* <div><b>Vue</b><HighlightAuto code={dedent(section.vue.code)} /></div>
RenderVueCode ==
    /\ pc = "vue.code"
    /\ CodeCell("HighlightAuto", "vue.code", VueCode(CurrentSection),
                HighlightAuto(CodeArg(VueCode(CurrentSection))), "svelte.notes")
    /\ UNCHANGED <<sections, raisesOn, idx>>
    /\ UNCHANGED normVars

NotesCalls(notes, field) ==
    IF Truthy(notes)
    THEN Append(calls, Call("Markdown", dedent(notes.text), field))
    ELSE calls

\* <div>{#if section.svelte.notes}<Markdown ... />{/if}</div>
RenderSvelteNotes ==
    /\ pc = "svelte.notes"
    /\ calls' = NotesCalls(CurrentSection.svelte.notes, "svelte.notes")
    /\ out' = AddCells(out, NotesSlot(CurrentSection.svelte.notes))
    /\ pc' = "vue.notes"
    /\ UNCHANGED <<sections, raisesOn, idx, err>>
    /\ UNCHANGED normVars

\* <div>{#if section.vue.notes}<Markdown ... />{/if}</div></div></section>
RenderVueNotes ==
    /\ pc = "vue.notes"
    /\ calls' = NotesCalls(CurrentSection.vue.notes, "vue.notes")
    /\ out' = AddCells(out, NotesSlot(CurrentSection.vue.notes))
    /\ idx' = idx + 1
    /\ pc' = IF idx + 1 > Len(sections) THEN "done" ELSE "title"
    /\ UNCHANGED <<sections, raisesOn, err>>
    /\ UNCHANGED normVars

Next ==
    \/ RenderTitle
    \/ RenderDescription
    \/ RenderSvelteCode
    \/ RenderVueCode
    \/ RenderSvelteNotes
    \/ RenderVueNotes

Spec == Init /\ [][Next]_vars

LoadSpec == InitLoad /\ [][Next]_vars

----------------------------------------------------------------------------
(* Normalizer harness: apply dedent to a RawText, then to its own output    *)

NoSections == <<>>

InitNorm ==
    /\ raw \in Texts(MaxLen)
    /\ once = <<>>
    /\ twice = <<>>
    /\ npc = "raw"
    /\ sections = NoSections
    /\ raisesOn = {}
    /\ idx = 1
    /\ pc = "idle"
    /\ out = <<>>
    /\ calls = <<>>
    /\ err = "none"

NormalizeOnce ==
    /\ npc = "raw"
    /\ once' = dedent(raw)
    /\ npc' = "once"
    /\ UNCHANGED <<raw, twice>>
    /\ UNCHANGED renderVars

NormalizeTwice ==
    /\ npc = "once"
    /\ twice' = dedent(once)
    /\ npc' = "twice"
    /\ UNCHANGED <<raw, once>>
    /\ UNCHANGED renderVars

NextNorm == NormalizeOnce \/ NormalizeTwice

NormSpec == InitNorm /\ [][NextNorm]_vars

----------------------------------------------------------------------------
(* Claims about the normalizer *)

HasNonBlank(ls) == \E i \in 1..Len(ls) : ~IsBlank(ls[i])

RECURSIVE LeadBlank(_)
LeadBlank(ls) ==
    IF ls # <<>> /\ IsBlank(ls[1]) THEN 1 + LeadBlank(Tail(ls)) ELSE 0

RECURSIVE TrailBlank(_)
TrailBlank(ls) ==
    IF ls # <<>> /\ IsBlank(ls[Len(ls)])
    THEN 1 + TrailBlank(SubSeq(ls, 1, Len(ls) - 1))
    ELSE 0

\* C6: normalization is idempotent: once a text has been normalized,
\* normalizing the result again returns the same text.
C6_Idempotent == npc = "twice" => twice = once

----------------------------------------------------------------------------
(* Claims about the render pass *)

\* entry i has been rendered to its closing </section>
Completed(i) == i \in 1..Len(out) /\ i < idx

CallsFor(i, field) ==
    {k \in 1..Len(calls) : calls[k].entry = i /\ calls[k].field = field}

\* the RawText a template slot reads
RawOf(section, field) ==
    CASE field = "description" -> section.description
      [] field = "svelte.code" -> section.svelte.code.text
      [] field = "vue.code" -> section.vue.code.text
      [] field = "svelte.notes" -> section.svelte.notes.text
      [] field = "vue.notes" -> section.vue.notes.text

\* C1: in every entry the svelte code goes to HighlightSvelte (the
\* known-language highlighter) and the vue code to HighlightAuto: the
\* first code cell is the svelte-highlighted svelte code, the second the
\* auto-highlighted vue code, and no highlighter call receives the other
\* variant's code.
C1_HighlighterPerVariant ==
    /\ \A i \in 1..Len(out) :
         /\ Len(out[i].cells) >= 1 =>
              /\ out[i].cells[1].kind = "highlight-svelte"
              /\ out[i].cells[1].text = dedent(sections[i].svelte.code.text)
         /\ Len(out[i].cells) >= 2 =>
              /\ out[i].cells[2].kind = "highlight-auto"
              /\ out[i].cells[2].text = dedent(sections[i].vue.code.text)
    /\ \A k \in 1..Len(calls) :
         /\ calls[k].fn = "HighlightSvelte" =>
              calls[k].arg = dedent(sections[calls[k].entry].svelte.code.text)
         /\ calls[k].fn = "HighlightAuto" =>
              calls[k].arg = dedent(sections[calls[k].entry].vue.code.text)

\* C1 witness: a finished pass over an entry whose two variants hold
\* different code.
C1_Witness ==
    /\ pc = "done"
    /\ \E i \in 1..Len(sections) :
         dedent(sections[i].svelte.code.text) # dedent(sections[i].vue.code.text)

\* C2: after a render pass over the whole content model the rendered
\* titles are the content model's titles, same length, same order.
C2_TitleOrder ==
    pc = "done" =>
        /\ Len(out) = Len(sections)
        /\ \A i \in 1..Len(sections) : out[i].title = sections[i].title

\* C2 witness: a finished pass over two or more entries.
C2_Witness == pc = "done" /\ Len(sections) >= 2 /\ Len(out) = Len(sections)

CodeKinds == {"highlight-svelte", "highlight-auto"}
NotesKinds == {"markdown", "nothing"}

\* C3: every rendered entry holds exactly four cells in the order code A,
\* code B, notes A, notes B: two code cells, then two notes slots, a notes
\* slot being possibly empty; whether or not the variants have notes.
C3_FourCells ==
    \A i \in 1..Len(out) :
        Completed(i) =>
            /\ Len(out[i].cells) = 4
            /\ out[i].cells[1].kind \in CodeKinds
            /\ out[i].cells[2].kind \in CodeKinds
            /\ out[i].cells[3].kind \in NotesKinds
            /\ out[i].cells[4].kind \in NotesKinds
            /\ out[i].cells[3].text = dedent(sections[i].svelte.notes.text)
            /\ out[i].cells[4].text = dedent(sections[i].vue.notes.text)

\* C3 witness: a rendered entry one of whose variants has notes while the
\* other has none.
C3_Witness ==
    \E i \in 1..Len(out) :
        /\ Completed(i)
        /\ ~sections[i].svelte.notes.has
        /\ Truthy(sections[i].vue.notes)
        /\ out[i].cells[3] = Nothing

\* the notes slot at cell k of entry i, for the notes of `field`, under a
\* presence test; "no error" is: the pass was not aborted inside entry i
NotesSlotOk(i, k, field, notes, present) ==
    Len(out[i].cells) >= k =>
        IF present
        THEN /\ out[i].cells[k] = [kind |-> "markdown", text |-> dedent(notes.text)]
             /\ Cardinality(CallsFor(i, field)) = 1
        ELSE /\ out[i].cells[k] = [kind |-> "nothing", text |-> <<>>]
             /\ CallsFor(i, field) = {}
             /\ ~(pc = "aborted" /\ idx = i)

\* C4 as stated: notes present (the field exists) => the slot holds the
\* markdown rendering of the normalized notes; notes absent => no render
\* call, an empty slot, and no error.
C4_PresentNotesRendered ==
    \A i \in 1..Len(out) :
        /\ NotesSlotOk(i, 3, "svelte.notes", sections[i].svelte.notes,
                       sections[i].svelte.notes.has)
        /\ NotesSlotOk(i, 4, "vue.notes", sections[i].vue.notes,
                       sections[i].vue.notes.has)

\* C4 amended: notes present and not the empty string => the slot holds the
\* markdown rendering of the normalized notes (one render call); notes
\* absent or empty => no render call, an empty slot, and no error.
C4_NonEmptyNotesRendered ==
    \A i \in 1..Len(out) :
        /\ NotesSlotOk(i, 3, "svelte.notes", sections[i].svelte.notes,
                       sections[i].svelte.notes.has
                           /\ sections[i].svelte.notes.text # <<>>)
        /\ NotesSlotOk(i, 4, "vue.notes", sections[i].vue.notes,
                       sections[i].vue.notes.has
                           /\ sections[i].vue.notes.text # <<>>)

\* C4 witness: a rendered entry with no svelte notes and non-empty vue
\* notes; the pass went on to its end.
C4_Witness ==
    /\ pc = "done"
    /\ \E i \in 1..Len(out) :
         /\ ~sections[i].svelte.notes.has
         /\ sections[i].vue.notes = Some(NotesText)
         /\ out[i].cells[4].kind = "markdown"

\* C5: every text handed to Markdown, HighlightSvelte or HighlightAuto is
\* dedent applied to the RawText of the slot that made the call; the
\* description, both code cells and every rendered notes slot show the
\* normalized text.
C5_OnlyNormalizedText ==
    /\ \A k \in 1..Len(calls) :
         calls[k].arg = dedent(RawOf(sections[calls[k].entry], calls[k].field))
    /\ \A i \in 1..Len(out) :
         /\ out[i].description.kind = "markdown" =>
              out[i].description.text = dedent(sections[i].description)
         /\ \A k \in 1..Len(out[i].cells) :
              out[i].cells[k].text =
                  dedent(RawOf(sections[i],
                               <<"svelte.code", "vue.code",
                                 "svelte.notes", "vue.notes">>[k]))

\* C5 witness: a finished pass that made all five calls for an entry, each
\* on a text that normalization changes.
C5_Witness ==
    /\ pc = "done"
    /\ \E i \in 1..Len(sections) :
         /\ \A f \in {"description", "svelte.code", "vue.code",
                      "svelte.notes", "vue.notes"} :
                /\ CallsFor(i, f) # {}
                /\ dedent(RawOf(sections[i], f)) # RawOf(sections[i], f)

\* C8: when a highlighter raises on the code of some entry the render pass
\* is not aborted: that entry still gets its four cells and the pass ends
\* with every entry of the content model rendered.
C8_FallbackSafety ==
    /\ pc # "aborted"
    /\ pc = "done" =>
         /\ Len(out) = Len(sections)
         /\ \A i \in 1..Len(sections) : Len(out[i].cells) = 4

Malformed(s) == \E i \in 1..Len(s) : ~s[i].svelte.code.has \/ ~s[i].vue.code.has

\* C9: a content model with a malformed entry (a variant without code) is
\* rejected at load time with InvalidContentEntry, before anything is
\* rendered: no title, no cell, no component call ever comes out of it.
C9_RejectedAtLoad ==
    Malformed(sections) =>
        /\ out = <<>>
        /\ calls = <<>>
        /\ pc \in {"done", "aborted"} => err = "InvalidContentEntry"

\* C10: notes that are the empty string are treated like absent notes: no
\* Markdown call is made for the slot and its cell is empty.
C10_EmptyNotesLikeAbsent ==
    \A i \in 1..Len(out) :
        /\ (Len(out[i].cells) >= 3 /\ sections[i].svelte.notes = Some(<<>>)) =>
               /\ out[i].cells[3] = [kind |-> "nothing", text |-> <<>>]
               /\ CallsFor(i, "svelte.notes") = {}
        /\ (Len(out[i].cells) >= 4 /\ sections[i].vue.notes = Some(<<>>)) =>
               /\ out[i].cells[4] = [kind |-> "nothing", text |-> <<>>]
               /\ CallsFor(i, "vue.notes") = {}

\* C10 witness: a rendered entry whose svelte notes are the empty string
\* and whose vue notes are absent, both slots empty.
C10_Witness ==
    \E i \in 1..Len(out) :
        /\ Completed(i)
        /\ sections[i].svelte.notes = Some(<<>>)
        /\ sections[i].vue.notes = Absent
        /\ out[i].cells[3] = out[i].cells[4]

====
